---- MODULE Spec2Model ----
(***************************************************************************)
(* Model of the timetable generator of src/app/page.tsx: generateSchedule  *)
(* and buildSchedule (grid initialisation, canAssignTeacher, the per-day    *)
(* shuffle and the per-period greedy assignment loop).                      *)
(*                                                                         *)
(* The catalog (CLASSES, DAYS, PERIODS, SUBJECTS, TEACHERS) is kept in the  *)
(* variable cat, fixed by Init, so that buildSchedule can be run on the     *)
(* built-in catalog and on the catalogs of the spec's scenarios.            *)
(*                                                                         *)
(* JS object keys are strings: newSchedule[cls][day][1] is key "1", so the  *)
(* period layout is a sequence of keys and teaching periods are keyed by    *)
(* ToString(period).  A slot value is a record whose kind is "assign" (the  *)
(* {subject, teacher} object), "Free", "Recess" or "Lunch".                 *)
(***************************************************************************)
EXTENDS Integers, Sequences, FiniteSets, TLC

VARIABLES
    cat,            \* the catalog (constant during a run)
    schedule,       \* React state `schedule`: <<>> is null, <<g>> holds g
    isGenerating,   \* React state `isGenerating`
    error,          \* React state `error`: <<>> is null, <<msg>> holds msg
    pc,             \* position: idle, init, day, period, return, done
    newSchedule,    \* buildSchedule's grid under construction
    ci,             \* index into CLASSES of the class being processed
    di,             \* index into DAYS of the day being processed
    pi,             \* index into [1..6] of the period being processed
    dailySubjects,  \* the shuffled copy of SUBJECTS for (class, day)
    subjectIndex    \* the rotation pointer for (class, day)

vars == <<cat, schedule, isGenerating, error, pc, newSchedule, ci, di, pi,
          dailySubjects, subjectIndex>>

Range(s) == {s[i] : i \in 1..Len(s)}

Min(S) == CHOOSE x \in S : \A y \in S : x <= y

Max(S) == CHOOSE x \in S : \A y \in S : x >= y

(* --- Constants of page.tsx ------------------------------------------------ *)

DAYS == <<"Monday", "Tuesday", "Wednesday", "Thursday", "Friday">>

PERIODS == <<"1", "2", "Recess", "3", "4", "Lunch", "5", "6">>

TeachingPeriods == <<1, 2, 3, 4, 5, 6>>

SUBJECTS == <<"Math", "Science", "English", "History", "Art", "PE">>

TEACHERS ==
    [s \in Range(SUBJECTS) |->
        CASE s = "Math"    -> <<"Mr. Smith", "Ms. Davis">>
          [] s = "Science" -> <<"Dr. Jones", "Mr. Wilson">>
          [] s = "English" -> <<"Ms. Taylor", "Mr. Brown">>
          [] s = "History" -> <<"Mrs. White", "Mr. Green">>
          [] s = "Art"     -> <<"Ms. Black">>
          [] s = "PE"      -> <<"Coach Carter">>]

CLASSES == <<"Grade 10-A", "Grade 10-B", "Grade 11-A">>

IsBreak(k) == k = "Recess" \/ k = "Lunch"

Slot(kind, subject, teacher) == [kind |-> kind, subject |-> subject, teacher |-> teacher]

FreeSlot == Slot("Free", "", "")

Key(period) == ToString(period)

(* A layout restricted to the teaching periods 1..n (breaks kept). *)
LayoutUpTo(n) == SelectSeq(PERIODS, LAMBDA k : IsBreak(k) \/ k \in {Key(i) : i \in 1..n})

Catalog(classes, days, layout, teach, subjects, teachers) ==
    [classes |-> classes, days |-> days, layout |-> layout, teach |-> teach,
     subjects |-> subjects, teachers |-> teachers]

(* --- Bounds ---------------------------------------------------------------- *)

NumClasses == 4

NumDays == 1

NumTeach == 3

BuiltinTeach == 1

(* --- Catalogs ------------------------------------------------------------- *)

(* A reduced catalog with contention: more classes than teachers, so Free   *)
(* slots and skipped rotation candidates both occur.                        *)
SmallCatalog ==
    Catalog([i \in 1..NumClasses |-> "Class " \o ToString(i)],
            [i \in 1..NumDays |-> DAYS[i]],
            LayoutUpTo(NumTeach),
            [i \in 1..NumTeach |-> TeachingPeriods[i]],
            <<"Math", "Science">>,
            [s \in {"Math", "Science"} |->
                IF s = "Math" THEN <<"Mr. Smith", "Ms. Davis">> ELSE <<"Dr. Jones">>])

(* Scenario catalogs of the spec. *)
CatalogOneClass ==
    Catalog(<<"A">>, <<"Monday">>, <<"1", "2">>, <<1, 2>>, <<"Math", "Science">>,
            [s \in {"Math", "Science"} |-> IF s = "Math" THEN <<"T1">> ELSE <<"T2">>])

CatalogTwoClasses ==
    Catalog(<<"A", "B">>, <<"Monday">>, <<"1">>, <<1>>, <<"Math">>,
            [s \in {"Math"} |-> <<"T1">>])

CatalogNoTeacher ==
    Catalog(<<"A">>, <<"Monday">>, <<"1", "2">>, <<1, 2>>, <<"Math", "Art">>,
            [s \in {"Math", "Art"} |-> IF s = "Math" THEN <<"T1">> ELSE <<>>])

(* The built-in catalog; days are scheduled independently of one another    *)
(* (canAssignTeacher only reads the slot's own day), one day is generated.  *)
BuiltinCatalog ==
    Catalog(CLASSES, <<"Monday">>, LayoutUpTo(BuiltinTeach),
            [i \in 1..BuiltinTeach |-> TeachingPeriods[i]], SUBJECTS, TEACHERS)

(* --- buildSchedule helpers ---------------------------------------------- *)

(* Variant: only 'Recess' recognised as a break. *)
EmptyGridRecessOnly(c) ==
    [cls \in Range(c.classes) |->
        [day \in Range(c.days) |->
            [k \in Range(c.layout) |-> IF k = "Recess" THEN Slot(k, "", "") ELSE FreeSlot]]]

(* Initialize empty schedule: breaks hold their marker, the rest 'Free'. *)
EmptyGrid(c) ==
    [cls \in Range(c.classes) |->
        [day \in Range(c.days) |->
            [k \in Range(c.layout) |-> IF IsBreak(k) THEN Slot(k, "", "") ELSE FreeSlot]]]

(* canAssignTeacher: no class holds an object slot with this teacher. *)
RECURSIVE CanAssignLoop(_, _, _, _, _, _)
CanAssignLoop(c, g, teacher, day, period, j) ==
    IF j > Len(c.classes) THEN TRUE
    ELSE LET slot == g[c.classes[j]][day][Key(period)]
         IN IF slot.kind = "assign" /\ slot.teacher = teacher THEN FALSE
            ELSE CanAssignLoop(c, g, teacher, day, period, j + 1)

(* Variants: the scan skips the first class / no scan at all. *)
CanAssignTeacherSkipFirst(c, g, teacher, day, period) == CanAssignLoop(c, g, teacher, day, period, 2)

CanAssignTeacherAlways(c, g, teacher, day, period) == TRUE

CanAssignTeacher(c, g, teacher, day, period) == CanAssignLoop(c, g, teacher, day, period, 1)

(* Variant: only the first listed teacher is considered. *)
FindTeacherFirstOnly(c, g, ts, day, period, i) ==
    IF i > Len(ts) \/ i > 1 THEN <<FALSE, "">>
    ELSE IF CanAssignTeacher(c, g, ts[i], day, period) THEN <<TRUE, ts[i]>>
    ELSE <<FALSE, "">>

(* for (const teacher of availableTeachers) ... : first assignable teacher. *)
RECURSIVE FindTeacher(_, _, _, _, _, _)
FindTeacher(c, g, ts, day, period, i) ==
    IF i > Len(ts) THEN <<FALSE, "">>
    ELSE IF CanAssignTeacher(c, g, ts[i], day, period) THEN <<TRUE, ts[i]>>
    ELSE FindTeacher(c, g, ts, day, period, i + 1)

(* The shuffled order is fixed lazily: an entry of dailySubjects holds Unset *)
(* until the while loop first reads it, and is then any subject not yet     *)
(* placed in the rotation.  The loop's reads follow exactly the reads of an *)
(* upfront shuffle, so every permutation (and only those) can be produced.  *)
Unset == "?"

(* dailySubjects[pos] as read by the loop: its value, or any unused subject. *)
ReadAt(c, ds, pos) == IF ds[pos] # Unset THEN {ds[pos]} ELSE Range(c.subjects) \ Range(ds)

Pos(ds, sIdx, attempts) == ((sIdx + attempts) % Len(ds)) + 1

(* Variant: the subject written is the pointer's, not the candidate's. *)
RECURSIVE AttemptLoopWrongSubject(_, _, _, _, _, _, _)
AttemptLoopWrongSubject(c, g, day, period, ds, sIdx, attempts) ==
    IF attempts < Len(ds)
    THEN UNION {LET ds2 == [ds EXCEPT ![Pos(ds, sIdx, attempts)] = subject]
                    r == FindTeacher(c, g, c.teachers[subject], day, period, 1)
                IN IF r[1]
                   THEN {[assigned |-> TRUE, subject |-> ds2[Pos(ds, sIdx, 0)], teacher |-> r[2],
                          attempts |-> attempts + 1, ds |-> ds2]}
                   ELSE AttemptLoopWrongSubject(c, g, day, period, ds2, sIdx, attempts + 1)
                : subject \in ReadAt(c, ds, Pos(ds, sIdx, attempts))}
    ELSE {[assigned |-> FALSE, subject |-> "", teacher |-> "", attempts |-> attempts, ds |-> ds]}

(* Variant: a single candidate is tried (no retry). *)
AttemptLoopSingle(c, g, day, period, ds, sIdx, attempts) ==
    IF attempts < Len(ds)
    THEN {LET ds2 == [ds EXCEPT ![Pos(ds, sIdx, attempts)] = subject]
              r == FindTeacher(c, g, c.teachers[subject], day, period, 1)
          IN IF r[1]
             THEN [assigned |-> TRUE, subject |-> subject, teacher |-> r[2],
                   attempts |-> attempts + 1, ds |-> ds2]
             ELSE [assigned |-> FALSE, subject |-> "", teacher |-> "",
                   attempts |-> attempts + 1, ds |-> ds2]
          : subject \in ReadAt(c, ds, Pos(ds, sIdx, attempts))}
    ELSE {[assigned |-> FALSE, subject |-> "", teacher |-> "", attempts |-> attempts, ds |-> ds]}

(* while (!assigned && attempts < dailySubjects.length) { subject =          *)
(* dailySubjects[(subjectIndex + attempts) % length]; ...; attempts++ }:     *)
(* the set of possible outcomes, each with the rotation as read so far.      *)
RECURSIVE AttemptLoop(_, _, _, _, _, _, _)
AttemptLoop(c, g, day, period, ds, sIdx, attempts) ==
    IF attempts < Len(ds)
    THEN UNION {LET ds2 == [ds EXCEPT ![Pos(ds, sIdx, attempts)] = subject]
                    r == FindTeacher(c, g, c.teachers[subject], day, period, 1)
                IN IF r[1]
                   THEN {[assigned |-> TRUE, subject |-> subject, teacher |-> r[2],
                          attempts |-> attempts + 1, ds |-> ds2]}
                   ELSE AttemptLoop(c, g, day, period, ds2, sIdx, attempts + 1)
                : subject \in ReadAt(c, ds, Pos(ds, sIdx, attempts))}
    ELSE {[assigned |-> FALSE, subject |-> "", teacher |-> "", attempts |-> attempts, ds |-> ds]}

(* Variants of the pointer update. *)
NextPointerByAttempts(r, s) == IF r.assigned THEN s + r.attempts ELSE s

NextPointerFixed(r, s) == s

NextPointerAlways(r, s) == s + 1

(* if (assigned) subjectIndex++ *)
NextPointer(r, s) == IF r.assigned THEN s + 1 ELSE s

(* --- Initial states ------------------------------------------------------ *)

InitWith(catalogs) ==
    /\ cat \in catalogs
    /\ schedule = <<>>
    /\ isGenerating = FALSE
    /\ error = <<>>
    /\ pc = "idle"
    /\ newSchedule = <<>>
    /\ ci = 1
    /\ di = 1
    /\ pi = 1
    /\ dailySubjects = <<>>
    /\ subjectIndex = 0

Init == InitWith({SmallCatalog, CatalogOneClass, CatalogTwoClasses, CatalogNoTeacher})

InitBuiltin == InitWith({BuiltinCatalog})

(* --- Actions ------------------------------------------------------------- *)

(* generateSchedule: button click, enabled while !isGenerating (also after a *)
(* completed generation; schedule keeps the previous grid until replaced).  *)
(* buildSchedule then runs in the timeout.                                   *)
GenerateSchedule ==
    /\ ~isGenerating
    /\ pc \in {"idle", "done"}
    /\ isGenerating' = TRUE
    /\ error' = <<>>
    /\ pc' = "init"
    /\ UNCHANGED <<cat, schedule, newSchedule, ci, di, pi, dailySubjects, subjectIndex>>

(* buildSchedule: initialize the empty schedule. *)
InitSchedule ==
    /\ pc = "init"
    /\ newSchedule' = EmptyGrid(cat)
    /\ ci' = 1
    /\ di' = 1
    /\ pc' = IF Len(cat.classes) = 0 \/ Len(cat.days) = 0 THEN "return" ELSE "day"
    /\ UNCHANGED <<cat, schedule, isGenerating, error, pi, dailySubjects, subjectIndex>>

(* Start of (class, day): [...SUBJECTS].sort(() => Math.random() - 0.5) and *)
(* subjectIndex = 0.  The random comparator lets the sort return any        *)
(* permutation; which one is fixed entry by entry as the loop reads it.     *)
StartDay ==
    /\ pc = "day"
    /\ dailySubjects' = [i \in 1..Len(cat.subjects) |-> Unset]
    /\ subjectIndex' = 0
    /\ pi' = 1
    /\ pc' = "period"
    /\ UNCHANGED <<cat, schedule, isGenerating, error, newSchedule, ci, di>>

(* One teaching period of (class, day): the whole while loop and its write. *)
AssignPeriod ==
    /\ pc = "period"
    /\ LET cls == cat.classes[ci]
           day == cat.days[di]
           period == cat.teach[pi]
       IN \E r \in AttemptLoop(cat, newSchedule, day, period, dailySubjects, subjectIndex, 0) :
            /\ newSchedule' = [newSchedule EXCEPT ![cls][day][Key(period)] =
                                 IF r.assigned THEN Slot("assign", r.subject, r.teacher)
                                 ELSE FreeSlot]
            /\ subjectIndex' = NextPointer(r, subjectIndex)
            /\ dailySubjects' = r.ds
    /\ IF pi < Len(cat.teach)
       THEN /\ pi' = pi + 1
            /\ pc' = "period"
            /\ UNCHANGED <<ci, di>>
       ELSE IF di < Len(cat.days)
       THEN /\ di' = di + 1
            /\ pc' = "day"
            /\ UNCHANGED <<ci, pi>>
       ELSE IF ci < Len(cat.classes)
       THEN /\ ci' = ci + 1
            /\ di' = 1
            /\ pc' = "day"
            /\ UNCHANGED pi
       ELSE /\ pc' = "return"
            /\ UNCHANGED <<ci, di, pi>>
    /\ UNCHANGED <<cat, schedule, isGenerating, error>>

(* return newSchedule; setSchedule(newSchedule); finally setIsGenerating(false). *)
ReturnSchedule ==
    /\ pc = "return"
    /\ schedule' = <<newSchedule>>
    /\ isGenerating' = FALSE
    /\ pc' = "done"
    /\ dailySubjects' = <<>>   \* buildSchedule's locals are gone
    /\ UNCHANGED <<cat, error, newSchedule, ci, di, pi, subjectIndex>>

Next ==
    \/ GenerateSchedule
    \/ InitSchedule
    \/ StartDay
    \/ AssignPeriod
    \/ ReturnSchedule

Spec == Init /\ [][Next]_vars

SpecBuiltin == InitBuiltin /\ [][Next]_vars

(* --- Views of the state used by the properties ------------------------------ *)

Built == pc \notin {"idle", "init"}

TeachKeys(c) == {Key(p) : p \in Range(c.teach)}

Cur == [cls |-> cat.classes[ci], day |-> cat.days[di]]

CurSlot(g, j) == g[Cur.cls][Cur.day][Key(cat.teach[j])]

Assigned(slot) == slot.kind = "assign"

(* Number of assigned periods among the first n teaching periods of (class, day). *)
PtrAfter(g, n) == Cardinality({j \in 1..n : Assigned(CurSlot(g, j))})

NSub == Len(dailySubjects)

(* 0-based position of a subject in a (partially read) rotation. *)
IdxIn(ds, subject) == CHOOSE i \in 0..Len(ds) - 1 : ds[i + 1] = subject

TeacherFree(g, day, key, t) ==
    \A cl \in Range(cat.classes) : ~(Assigned(g[cl][day][key]) /\ g[cl][day][key].teacher = t)

FreeTeacherIdx(g, day, key, subj) ==
    {i \in 1..Len(cat.teachers[subj]) : TeacherFree(g, day, key, cat.teachers[subj][i])}

(* Reference result of one slot: first candidate from s with a free teacher. *)
(* R is the rotation after the step: every candidate the loop read is set. *)
RefSlot(g, day, key, R, s) ==
    LET N == Len(R)
        Cand(k) == R[((s + k) % N) + 1]
        Ks == {k \in 0..N - 1 : Cand(k) # Unset /\ FreeTeacherIdx(g, day, key, Cand(k)) # {}}
    IN IF Ks = {} \/ \E k \in 0..Min(Ks) : Cand(k) = Unset THEN FreeSlot
       ELSE LET subj == Cand(Min(Ks))
            IN Slot("assign", subj, cat.teachers[subj][Min(FreeTeacherIdx(g, day, key, subj))])

(* Rotation index of the first candidate from start with a free teacher. *)
FirstFreeIdx(g, day, key, ds, start) ==
    LET N == Len(ds)
        Cand(k) == ds[((start + k) % N) + 1]
        Ks == {k \in 0..N - 1 : Cand(k) # Unset /\ FreeTeacherIdx(g, day, key, Cand(k)) # {}}
    IN IF Ks = {} \/ \E k \in 0..Min(Ks) : Cand(k) = Unset THEN -1
       ELSE (start + Min(Ks)) % N

(* Earlier assigned periods of the current (class, day). *)
PrevAssigned == {j \in 1..pi - 1 : Assigned(CurSlot(newSchedule, j))}

NewSlot == CurSlot(newSchedule', pi)

Malformed(c) ==
    \/ c.classes = <<>> \/ c.days = <<>> \/ c.subjects = <<>>
    \/ \E s \in Range(c.subjects) : c.teachers[s] = <<>>

(* C1: no double-booking.  In every state of the construction and in the   *)
(* returned grid, two distinct classes holding an assignment at the same    *)
(* (day, teaching period) have different teachers.                          *)
NoDoubleBooking ==
    Built =>
        \A d \in Range(cat.days), k \in TeachKeys(cat), c1, c2 \in Range(cat.classes) :
            (c1 # c2 /\ Assigned(newSchedule[c1][d][k]) /\ Assigned(newSchedule[c2][d][k]))
                => newSchedule[c1][d][k].teacher # newSchedule[c2][d][k].teacher

NoDoubleBookingWitness ==
    /\ Built
    /\ \E d \in Range(cat.days), k \in TeachKeys(cat), c1, c2 \in Range(cat.classes) :
           c1 # c2 /\ Assigned(newSchedule[c1][d][k]) /\ Assigned(newSchedule[c2][d][k])

(* C2: grid completeness.  The returned schedule has an entry for every     *)
(* class, day and period of the layout; breaks hold their marker, teaching  *)
(* periods hold an assignment or Free.                                      *)
GridComplete ==
    pc = "done" =>
        /\ schedule # <<>>
        /\ TeachKeys(cat) \subseteq Range(cat.layout)
        /\ LET g == schedule[1]
           IN /\ DOMAIN g = Range(cat.classes)
              /\ \A cls \in Range(cat.classes) :
                    /\ DOMAIN g[cls] = Range(cat.days)
                    /\ \A d \in Range(cat.days) :
                          /\ DOMAIN g[cls][d] = Range(cat.layout)
                          /\ \A k \in Range(cat.layout) :
                                IF IsBreak(k) THEN g[cls][d][k] = Slot(k, "", "")
                                ELSE g[cls][d][k].kind \in {"assign", "Free"}

GridCompleteWitness == pc = "done" /\ cat = SmallCatalog

(* C3: subject validity.  Every assignment's teacher is listed for its      *)
(* subject in TEACHERS.                                                     *)
SubjectValidity ==
    Built =>
        \A cls \in Range(cat.classes), d \in Range(cat.days), k \in Range(cat.layout) :
            Assigned(newSchedule[cls][d][k]) =>
                /\ newSchedule[cls][d][k].subject \in Range(cat.subjects)
                /\ newSchedule[cls][d][k].teacher \in Range(cat.teachers[newSchedule[cls][d][k].subject])

SubjectValidityWitness ==
    /\ Built
    /\ \E cls \in Range(cat.classes), d \in Range(cat.days), k \in Range(cat.layout) :
           Assigned(newSchedule[cls][d][k]) /\ newSchedule[cls][d][k].teacher = "Ms. Davis"

(* C4: configuration error.  With a malformed catalog no slot is ever       *)
(* assigned, and generation ends with an error and no schedule.             *)
ConfigurationErrorSignalled ==
    Malformed(cat) =>
        /\ Built => \A cls \in Range(cat.classes), d \in Range(cat.days), k \in Range(cat.layout) :
                        ~Assigned(newSchedule[cls][d][k])
        /\ pc = "done" => error # <<>> /\ schedule = <<>>

ScenarioOneClass ==
    (cat = CatalogOneClass /\ pc = "done") =>
        LET g == schedule[1]["A"]["Monday"]
        IN {g["1"], g["2"]} = {Slot("assign", "Math", "T1"), Slot("assign", "Science", "T2")}

ScenarioOneClassWitness == cat = CatalogOneClass /\ pc = "done"

(* C7: two classes, one period, {Math: [T1]}: one class gets Math/T1 and   *)
(* the other class's slot is Free.                                          *)
ScenarioTwoClasses ==
    (cat = CatalogTwoClasses /\ pc = "done") =>
        {schedule[1]["A"]["Monday"]["1"], schedule[1]["B"]["Monday"]["1"]}
            = {Slot("assign", "Math", "T1"), FreeSlot}

ScenarioTwoClassesWitness == cat = CatalogTwoClasses /\ pc = "done"

(* C8: the slot written for a period is the reference result: the first   *)
(* rotation candidate from the pointer with a free teacher, and its first  *)
(* free teacher in catalog order; Free iff no subject has a free teacher.   *)
SlotReference ==
    [][pc = "period" =>
         /\ NewSlot = RefSlot(newSchedule, Cur.day, Key(cat.teach[pi]), dailySubjects', subjectIndex)
         /\ (NewSlot.kind = "Free") <=>
               \A subj \in Range(cat.subjects) :
                   FreeTeacherIdx(newSchedule, Cur.day, Key(cat.teach[pi]), subj) = {}]_vars

(* The previous period of the current (class, day) ended Free. *)
SlotFreeWitness ==
    pc = "period" /\ pi > 1 /\ CurSlot(newSchedule, pi - 1).kind = "Free"

(* C9: the rotation pointer starts at 0 and after each period equals the   *)
(* number of assigned periods so far in this (class, day).                  *)
PointerCount ==
    [][pc = "period" =>
         /\ subjectIndex = PtrAfter(newSchedule, pi - 1)
         /\ subjectIndex' = PtrAfter(newSchedule', pi)]_vars

PointerLagWitness == pc = "period" /\ subjectIndex < pi - 1

(* C10: with the built-in catalog no teaching period is left Free. *)
BuiltinNoFree ==
    pc = "done" =>
        \A cls \in Range(cat.classes), d \in Range(cat.days), k \in TeachKeys(cat) :
            Assigned(schedule[1][cls][d][k])

(* Both single-teacher subjects are taken by the first two classes. *)
BuiltinContendedWitness ==
    /\ pc = "done"
    /\ \E d \in Range(cat.days), k \in TeachKeys(cat) :
          {schedule[1][CLASSES[1]][d][k].subject, schedule[1][CLASSES[2]][d][k].subject}
              = {"Art", "PE"}

====
